---- MODULE Spec2Model ----
(***************************************************************************)
(* A model of sealion (src/lib.rs): the Row mapping contract with its      *)
(* column consistency check, and the SelectQuery builder with its two      *)
(* execution variants, running over an rusqlite connection.                *)
(*                                                                         *)
(* Strings are sequences of one-character strings, so that format!, join   *)
(* and eq_ignore_ascii_case are computed character by character.           *)
(* Option<T> is a sequence of length 0 (None) or 1 (Some).                 *)
(* Result<T, E> is [tag |-> "Ok", val |-> v] or [tag |-> "Err", err |-> e].*)
(***************************************************************************)
EXTENDS Integers, Sequences, FiniteSets, TLC

VARIABLES
    table_name,      \* SelectQuery.table_name
    where_clause,    \* SelectQuery.where_clause : Option<String>
    last_where,      \* history: the argument of the most recent call to where
    built,           \* Option: the last call of build_sql_string, with its result
    columns,         \* R::columns() of the record type in use
    db,              \* the connection's side: statement shape, rows, stepping fault
    warnings,        \* Option: what the last call of check_columns logged
    exec_result,     \* Option: the last call of execute
    collect_result,  \* Option: the last call of execute_collect_errors
    from_result,     \* Option: the last call of from_statement
    iter,            \* the MappedRows iterator from_statement returned
    pulled,          \* what each call of next() on that iterator returned
    trace            \* the driver calls made by from_statement and next()

vars == <<table_name, where_clause, last_where, built, columns, db, warnings,
          exec_result, collect_result, from_result, iter, pulled, trace>>

(***************************************************************************)
(* Bounds                                                                  *)
(***************************************************************************)
MaxRows == 3          \* rows a result set holds at most
MaxCols == 2          \* column names per list in the check_columns specification
MaxExtraPulls == 2    \* calls of next() after the iterator ended

(***************************************************************************)
(* Option and Result                                                       *)
(***************************************************************************)
None == <<>>
Some(v) == <<v>>
IsSome(o) == Len(o) = 1
Unwrap(o) == o[1]

Ok(v) == [tag |-> "Ok", val |-> v]
Err(e) == [tag |-> "Err", err |-> e]
IsOk(r) == r.tag = "Ok"
IsErr(r) == r.tag = "Err"

Min(a, b) == IF a <= b THEN a ELSE b

\* SealionError::RusqliteError(err)
RusqliteError(e) == [variant |-> "RusqliteError", source |-> e]
\* SealionError::IoError(err)
IoError(e) == [variant |-> "IoError", source |-> e]

\* rusqlite::Error values
DriverError(kind, idx) == [kind |-> kind, idx |-> idx]

(***************************************************************************)
(* Strings                                                                 *)
(***************************************************************************)
UpperCase == <<"A","B","C","D","E","F","G","H","I","J","K","L","M",
               "N","O","P","Q","R","S","T","U","V","W","X","Y","Z">>
LowerCase == <<"a","b","c","d","e","f","g","h","i","j","k","l","m",
               "n","o","p","q","r","s","t","u","v","w","x","y","z">>

\* u8::to_ascii_lowercase
to_ascii_lowercase(c) ==
    IF \E i \in 1..Len(UpperCase) : UpperCase[i] = c
    THEN LowerCase[CHOOSE i \in 1..Len(UpperCase) : UpperCase[i] = c]
    ELSE c

\* str::eq_ignore_ascii_case
eq_ignore_ascii_case(a, b) ==
    /\ Len(a) = Len(b)
    /\ \A i \in 1..Len(a) : to_ascii_lowercase(a[i]) = to_ascii_lowercase(b[i])

\* [String]::join(sep)
RECURSIVE join(_, _)
join(strs, sep) ==
    IF Len(strs) = 0 THEN <<>>
    ELSE IF Len(strs) = 1 THEN strs[1]
    ELSE strs[1] \o sep \o join(Tail(strs), sep)

COMMA_SPACE == <<",", " ">>

(***************************************************************************)
(* Inputs: names, column lists, table names, where clauses                 *)
(***************************************************************************)
id == <<"i","d">>
ID == <<"I","D">>
name == <<"n","a","m","e">>
optional == <<"o","p","t","i","o","n","a","l">>

ColumnNames == {id, ID, name}

\* R::columns() of the record types in use; the first is TestRow's
TestRowColumns == <<id, name, optional>>
ColumnLists == {TestRowColumns, <<id, name>>, <<optional, id, name>>}

\* the shapes a prepared statement can have (Statement::column_names)
StatementShapes == {<<id, name, optional>>, <<ID, name, optional>>,
                    <<id, name>>, <<name, optional, id>>}

test_table == <<"t">>
no_such_table == <<"u">>
TableNames == {test_table, no_such_table}
\* the tables of the connection's schema
DbTables == {test_table}

\* "id = 1" and "id = ?"
id_eq_1 == <<"i","d"," ","="," ","1">>
id_eq_param == <<"i","d"," ","="," ","?">>
WhereClauses == {id_eq_1, id_eq_param}

SeqsUpTo(S, n) == UNION {[1..k -> S] : k \in 0..n}

(***************************************************************************)
(* check_columns                                                           *)
(***************************************************************************)
Warning(kind, args) == [target |-> "sealion_parsing_events", kind |-> kind, args |-> args]

\* format!("{} != {}", a, b)
MismatchMessage(a, b) == a \o <<" ", "!", "=", " ">> \o b

\* .zip(columns).filter_map(..).collect(): the closure keeps a message when
\* a.eq_ignore_ascii_case(b) is true
RECURSIVE mismatched_columns(_, _)
mismatched_columns(names, cols) ==
    IF Len(names) = 0 \/ Len(cols) = 0 THEN <<>>
    ELSE (IF eq_ignore_ascii_case(names[1], cols[1])
          THEN <<MismatchMessage(names[1], cols[1])>>
          ELSE <<>>) \o mismatched_columns(Tail(names), Tail(cols))

\* a faulty variant: the count is reported only when the statement selects fewer columns
ColumnCountWarning_fewer(names, cols) ==
    IF Len(names) < Len(cols)
    THEN <<Warning("Column count mismatch", <<Len(cols), Len(names)>>)>>
    ELSE <<>>

ColumnCountWarning(names, cols) ==
    IF Len(names) # Len(cols)
    THEN <<Warning("Column count mismatch", <<Len(cols), Len(names)>>)>>
    ELSE <<>>

ColumnNameWarning(names, cols) ==
    IF Len(mismatched_columns(names, cols)) > 0
    THEN <<Warning("Column name mismatch",
                   <<join(mismatched_columns(names, cols), COMMA_SPACE)>>)>>
    ELSE <<>>

\* the warnings check_columns logs, in order; it returns ()
check_columns(names, cols) ==
    ColumnCountWarning(names, cols) \o ColumnNameWarning(names, cols)

(***************************************************************************)
(* SelectQuery: new, where, build_sql_string                               *)
(***************************************************************************)
SelectQuery_new(t) == [table_name |-> t, where_clause |-> None]

SelectQuery_where(self, w) == [self EXCEPT !.where_clause = Some(w)]

\* a faulty variant: no space is written after the table name
build_sql_string_trimmed(self, cols) ==
    LET select == <<"S","E","L","E","C","T"," ">> \o join(cols, COMMA_SPACE) \o <<" ">>
        from == select \o <<"F","R","O","M"," ">> \o self.table_name
    IN  Ok(IF IsSome(self.where_clause)
           THEN from \o <<" ","W","H","E","R","E"," ">> \o Unwrap(self.where_clause)
           ELSE from)

build_sql_string(self, cols) ==
    LET select == <<"S","E","L","E","C","T"," ">> \o join(cols, COMMA_SPACE) \o <<" ">>
        from == select \o <<"F","R","O","M"," ">> \o self.table_name \o <<" ">>
    IN  Ok(IF IsSome(self.where_clause)
           THEN from \o <<"W","H","E","R","E"," ">> \o Unwrap(self.where_clause)
           ELSE from)

Self == [table_name |-> table_name, where_clause |-> where_clause]

(***************************************************************************)
(* The record type of the tests (TestRow) and the rows of its table.       *)
(* A cell is an Option: None is SQL NULL.                                  *)
(***************************************************************************)
orange == <<Some(0), Some("Orange"), Some("Strawberry")>>
apple == <<Some(1), Some("Apple"), None>>
null_name == <<Some(2), None, Some("Raspberry")>>
null_id == <<None, Some("Peach"), None>>
TableRows == {orange, apple, null_name, null_id}

\* rusqlite::Row::get(idx) into a type that is not an Option
row_get(row, idx) ==
    IF idx >= Len(row) THEN Err(DriverError("InvalidColumnIndex", idx))
    ELSE IF row[idx + 1] = None THEN Err(DriverError("InvalidColumnType", idx))
    ELSE Ok(Unwrap(row[idx + 1]))

\* rusqlite::Row::get(idx) into an Option: NULL reads as None
row_get_option(row, idx) ==
    IF idx >= Len(row) THEN Err(DriverError("InvalidColumnIndex", idx))
    ELSE Ok(row[idx + 1])

\* TestRow::parse_row: each get is followed by ?
parse_row(row) ==
    IF IsErr(row_get(row, 0)) THEN row_get(row, 0)
    ELSE IF IsErr(row_get(row, 1)) THEN row_get(row, 1)
    ELSE IF IsErr(row_get_option(row, 2)) THEN row_get_option(row, 2)
    ELSE Ok([id |-> row_get(row, 0).val,
             name |-> row_get(row, 1).val,
             optional |-> row_get_option(row, 2).val])

(***************************************************************************)
(* The driver: preparing, binding and stepping a statement                 *)
(***************************************************************************)
Contains(s, sub) ==
    \E i \in 1..(Len(s) - Len(sub) + 1) : SubSeq(s, i, i + Len(sub) - 1) = sub

\* the number of ? placeholders of a statement text
ParameterCount(sql) == Cardinality({i \in 1..Len(sql) : sql[i] = "?"})

\* the rows a statement of the given shape yields: one cell per column
Project(rows, names) ==
    [i \in 1..Len(rows) |-> SubSeq(rows[i], 1, Min(Len(names), Len(rows[i])))]

\* a prepared statement over the connection's data
Statement(conn, sql, nparams) ==
    [sql |-> sql, names |-> conn.names, params |-> nparams,
     rows |-> Project(conn.rows, conn.names), fault |-> conn.fault]

\* Connection::prepare_cached: fails when the FROM table is not in the schema
prepare_cached(conn, sql) ==
    IF \E t \in DbTables : Contains(sql, <<"F","R","O","M"," ">> \o t \o <<" ">>)
    THEN Ok(Statement(conn, sql, ParameterCount(sql)))
    ELSE Err(DriverError("SqliteFailure", -1))

\* Statement::query_map(params = [], f): binds no parameter, steps nothing
query_map(stmt) ==
    IF stmt.params # 0 THEN Err(DriverError("InvalidParameterCount", stmt.params))
    ELSE Ok([pos |-> 0, live |-> TRUE])

\* Rows::next: one sqlite3_step, unless the statement was reset before
Rows_next(stmt, it) ==
    IF ~it.live THEN [elem |-> None, it |-> it, stepped |-> FALSE]
    ELSE IF it.pos < Len(stmt.rows)
    THEN [elem |-> Some(Ok(stmt.rows[it.pos + 1])),
          it |-> [it EXCEPT !.pos = it.pos + 1], stepped |-> TRUE]
    ELSE IF stmt.fault
    THEN [elem |-> Some(Err(DriverError("SqliteFailure", it.pos))),
          it |-> [it EXCEPT !.live = FALSE], stepped |-> TRUE]
    ELSE [elem |-> None, it |-> [it EXCEPT !.live = FALSE], stepped |-> TRUE]

\* a faulty variant: a row that fails to parse ends the iteration
MappedRows_next_fused(stmt, it) ==
    LET r == Rows_next(stmt, it)
    IN  IF IsSome(r.elem) /\ IsOk(Unwrap(r.elem))
        THEN [elem |-> Some(parse_row(Unwrap(r.elem).val)),
              it |-> IF IsErr(parse_row(Unwrap(r.elem).val))
                     THEN [r.it EXCEPT !.live = FALSE] ELSE r.it,
              stepped |-> r.stepped]
        ELSE r

\* MappedRows::next: parse_row on the row stepped to
MappedRows_next(stmt, it) ==
    LET r == Rows_next(stmt, it)
    IN  IF IsSome(r.elem) /\ IsOk(Unwrap(r.elem))
        THEN [elem |-> Some(parse_row(Unwrap(r.elem).val)), it |-> r.it,
              stepped |-> r.stepped]
        ELSE r

(***************************************************************************)
(* Row::from_statement                                                     *)
(***************************************************************************)
map_err(r) == IF IsErr(r) THEN Err(RusqliteError(r.err)) ELSE r

\* a faulty variant: a column mismatch fails the call
from_statement_strict(stmt, cols) ==
    [warnings |-> check_columns(stmt.names, cols),
     ret |-> IF check_columns(stmt.names, cols) # <<>>
             THEN Err(RusqliteError(DriverError("InvalidColumnName", 0)))
             ELSE map_err(query_map(stmt))]

from_statement(stmt, cols) ==
    [warnings |-> check_columns(stmt.names, cols),
     ret |-> map_err(query_map(stmt))]

(***************************************************************************)
(* SelectQuery: prepare_statement, execute, execute_collect_errors         *)
(***************************************************************************)
prepare_statement_columns(self, conn, cols) ==
    LET sql == build_sql_string(self, cols)
    IN  IF IsErr(sql) THEN Err(IoError(sql.err))
        ELSE map_err(prepare_cached(conn, sql.val))

\* R::columns() is passed as cols
prepare_statement(self, conn, cols) == prepare_statement_columns(self, conn, cols)

\* a faulty variant: each record is put in front of the ones collected before
RECURSIVE collect_newest_first(_, _, _)
collect_newest_first(stmt, it, acc) ==
    LET n == MappedRows_next(stmt, it)
    IN  IF ~IsSome(n.elem) THEN [ret |-> Ok(acc), it |-> n.it]
        ELSE IF IsErr(Unwrap(n.elem)) THEN [ret |-> Err(Unwrap(n.elem).err), it |-> n.it]
        ELSE collect_newest_first(stmt, n.it, <<Unwrap(n.elem).val>> \o acc)

\* a faulty variant: the first row that fails to parse ends the collection with what was parsed
RECURSIVE collect_keep_prefix(_, _, _)
collect_keep_prefix(stmt, it, acc) ==
    LET n == MappedRows_next(stmt, it)
    IN  IF ~IsSome(n.elem) THEN [ret |-> Ok(acc), it |-> n.it]
        ELSE IF IsErr(Unwrap(n.elem)) THEN [ret |-> Ok(acc), it |-> n.it]
        ELSE collect_keep_prefix(stmt, n.it, Append(acc, Unwrap(n.elem).val))

\* rows_iterator.collect::<rusqlite::Result<Vec<R>>>(): stops at the first Err
RECURSIVE collect(_, _, _)
collect(stmt, it, acc) ==
    LET n == MappedRows_next(stmt, it)
    IN  IF ~IsSome(n.elem) THEN [ret |-> Ok(acc), it |-> n.it]
        ELSE IF IsErr(Unwrap(n.elem)) THEN [ret |-> Err(Unwrap(n.elem).err), it |-> n.it]
        ELSE collect(stmt, n.it, Append(acc, Unwrap(n.elem).val))

\* .filter_map(..).collect(): runs to the end, Err elements go to parsing_errors
RECURSIVE filter_map_collect(_, _, _, _)
filter_map_collect(stmt, it, values, parsing_errors) ==
    LET n == MappedRows_next(stmt, it)
    IN  IF ~IsSome(n.elem)
        THEN [values |-> values, parsing_errors |-> parsing_errors, it |-> n.it]
        ELSE IF IsErr(Unwrap(n.elem))
        THEN filter_map_collect(stmt, n.it, values,
                 Append(parsing_errors, RusqliteError(Unwrap(n.elem).err)))
        ELSE filter_map_collect(stmt, n.it, Append(values, Unwrap(n.elem).val),
                 parsing_errors)

\* a call of execute or execute_collect_errors: the query it ran on, what it
\* returned, what it logged, and how many rows the driver had stepped to
Call(self, ret, logged, fetched) ==
    [self |-> self, ret |-> ret, warnings |-> logged, fetched |-> fetched]

execute(self, conn, cols) ==
    LET statement == prepare_statement(self, conn, cols)
    IN  IF IsErr(statement) THEN Call(self, statement, <<>>, 0)
        ELSE LET rows_iterator == from_statement(statement.val, cols)
             IN  IF IsErr(rows_iterator.ret)
                 THEN Call(self, rows_iterator.ret, rows_iterator.warnings, 0)
                 ELSE LET c == collect(statement.val, rows_iterator.ret.val, <<>>)
                      IN  Call(self, map_err(c.ret), rows_iterator.warnings, c.it.pos)

execute_collect_errors(self, conn, cols) ==
    LET statement == prepare_statement(self, conn, cols)
    IN  IF IsErr(statement) THEN Call(self, statement, <<>>, 0)
        ELSE LET rows_iterator == from_statement(statement.val, cols)
             IN  IF IsErr(rows_iterator.ret)
                 THEN Call(self, rows_iterator.ret, rows_iterator.warnings, 0)
                 ELSE LET c == filter_map_collect(statement.val, rows_iterator.ret.val,
                                                  <<>>, <<>>)
                      IN  Call(self, Ok(<<c.values, c.parsing_errors>>),
                               rows_iterator.warnings, c.it.pos)

(***************************************************************************)
(* Actions                                                                 *)
(***************************************************************************)
query_vars == <<table_name, where_clause, last_where>>
exec_vars == <<exec_result, collect_result>>
iter_vars == <<from_result, iter, pulled, trace>>

\* SelectQuery::new(t)
New(t) ==
    /\ table_name' = SelectQuery_new(t).table_name
    /\ where_clause' = SelectQuery_new(t).where_clause
    /\ last_where' = None
    /\ UNCHANGED <<built, columns, db, warnings, exec_vars, iter_vars>>

\* query.where(w)
Where(w) ==
    /\ table_name' = SelectQuery_where(Self, w).table_name
    /\ where_clause' = SelectQuery_where(Self, w).where_clause
    /\ last_where' = Some(w)
    /\ UNCHANGED <<built, columns, db, warnings, exec_vars, iter_vars>>

\* query.build_sql_string(cols): &self, so the query is left as it is
BuildSqlString(cols) ==
    /\ UNCHANGED <<query_vars, columns, db, warnings, exec_vars, iter_vars>>
    /\ built' = Some([self |-> Self, last_where |-> last_where, columns |-> cols,
                      ret |-> build_sql_string(Self, cols),
                      after |-> [table_name |-> table_name',
                                 where_clause |-> where_clause']])

\* check_columns(&statement, columns)
CheckColumns ==
    /\ warnings' = Some(check_columns(db.names, columns))
    /\ UNCHANGED <<query_vars, built, columns, db, exec_vars, iter_vars>>

\* query.execute::<R>(&connection)
Execute ==
    /\ exec_result' = Some(execute(Self, db, columns))
    /\ UNCHANGED <<query_vars, built, columns, db, warnings, collect_result, iter_vars>>

\* query.execute_collect_errors::<R>(&connection)
ExecuteCollectErrors ==
    /\ collect_result' = Some(execute_collect_errors(Self, db, columns))
    /\ UNCHANGED <<query_vars, built, columns, db, warnings, exec_result, iter_vars>>

\* R::from_statement(&mut statement, []) on a statement with nparams placeholders;
\* one borrow of the statement is followed
FromStatement(nparams) ==
    /\ ~IsSome(from_result)
    /\ LET stmt == Statement(db, <<>>, nparams)
           r == from_statement(stmt, columns)
       IN  /\ from_result' = Some(r)
           /\ iter' = IF IsOk(r.ret) THEN Some([stmt |-> stmt, it |-> r.ret.val]) ELSE None
           /\ trace' = trace \o <<"check_columns", "query_map">>
    /\ UNCHANGED <<query_vars, built, columns, db, warnings, exec_vars, pulled>>

\* rows.next() on the iterator from_statement returned
IterNext ==
    /\ IsSome(iter)
    /\ Len(pulled) < Len(db.rows) + 1 + MaxExtraPulls
    /\ LET n == MappedRows_next(Unwrap(iter).stmt, Unwrap(iter).it)
       IN  /\ iter' = Some([Unwrap(iter) EXCEPT !.it = n.it])
           /\ pulled' = Append(pulled, n.elem)
           /\ trace' = IF n.stepped THEN Append(trace, "step") ELSE trace
    /\ UNCHANGED <<query_vars, built, columns, db, warnings, exec_vars, from_result>>

(***************************************************************************)
(* Specifications                                                          *)
(***************************************************************************)
NoDb == [names |-> <<>>, rows |-> <<>>, fault |-> FALSE]

Idle ==
    /\ built = None
    /\ warnings = None
    /\ exec_result = None
    /\ collect_result = None
    /\ from_result = None
    /\ iter = None
    /\ pulled = <<>>
    /\ trace = <<>>

Connections(shapes) ==
    [names : shapes, rows : SeqsUpTo(TableRows, MaxRows), fault : BOOLEAN]

\* execute and execute_collect_errors of a query over a connection; the rows
\* the connection yields are fixed per behaviour, so of the where-clauses the one
\* with a placeholder is the one that changes what the calls meet
Init ==
    /\ table_name \in TableNames
    /\ where_clause = None
    /\ last_where = None
    /\ columns \in {TestRowColumns, <<id, name>>}
    /\ db \in Connections({<<id, name, optional>>, <<name, id>>})
    /\ Idle

Next ==
    \/ \E w \in {id_eq_param} : Where(w)
    \/ Execute
    \/ ExecuteCollectErrors

Spec == Init /\ [][Next]_vars

\* the query builder on its own
InitQuery ==
    /\ table_name \in TableNames
    /\ where_clause = None
    /\ last_where = None
    /\ columns = TestRowColumns
    /\ db = NoDb
    /\ Idle

NextQuery ==
    \/ \E t \in TableNames : New(t)
    \/ \E w \in WhereClauses : Where(w)
    \/ \E cols \in ColumnLists \cup {<<>>} : BuildSqlString(cols)

SpecQuery == InitQuery /\ [][NextQuery]_vars

\* check_columns on every pair of a statement shape and a column list
InitCheck ==
    /\ table_name = test_table
    /\ where_clause = None
    /\ last_where = None
    /\ columns \in SeqsUpTo(ColumnNames, MaxCols)
    /\ db \in [names : SeqsUpTo(ColumnNames, MaxCols), rows : {<<>>}, fault : {FALSE}]
    /\ Idle

NextCheck == CheckColumns

SpecCheck == InitCheck /\ [][NextCheck]_vars

\* from_statement on a prepared statement, and the pulls on what it returns
InitIter ==
    /\ table_name = test_table
    /\ where_clause = None
    /\ last_where = None
    /\ columns \in ColumnLists
    /\ db \in Connections(StatementShapes)
    /\ Idle

NextIter ==
    \/ \E nparams \in 0..1 : FromStatement(nparams)
    \/ IterNext

SpecIter == InitIter /\ [][NextIter]_vars

(***************************************************************************)
(* Properties                                                              *)
(***************************************************************************)
\* the rows the prepared statement yields, in the driver's fetch order
StatementRows == Project(db.rows, db.names)

\* the positions of the rows that fail to parse
BadRows == {i \in 1..Len(db.rows) : IsErr(parse_row(StatementRows[i]))}
FirstBad == CHOOSE i \in BadRows : \A j \in BadRows : i <= j

TableExists(q) == q.table_name \in DbTables
HasPlaceholder(q) ==
    /\ IsSome(q.where_clause)
    /\ \E i \in 1..Len(Unwrap(q.where_clause)) : Unwrap(q.where_clause)[i] = "?"
\* the statement of query q prepares and binds
Delivered(q) == TableExists(q) /\ ~HasPlaceholder(q)

\* the driver errors of the three statement-level failures
PrepareError == DriverError("SqliteFailure", -1)
BindError(q) == DriverError("InvalidParameterCount", ParameterCount(Unwrap(q.where_clause)))
StepFault == DriverError("SqliteFailure", Len(db.rows))

\* the parses of the rows that parse, in fetch order
RECURSIVE OkValues(_)
OkValues(rows) ==
    IF Len(rows) = 0 THEN <<>>
    ELSE (IF IsOk(parse_row(rows[1])) THEN <<parse_row(rows[1]).val>> ELSE <<>>)
         \o OkValues(Tail(rows))

\* the errors of the rows that fail to parse, in fetch order
RECURSIVE RowErrors(_)
RowErrors(rows) ==
    IF Len(rows) = 0 THEN <<>>
    ELSE (IF IsErr(parse_row(rows[1])) THEN <<RusqliteError(parse_row(rows[1]).err)>>
          ELSE <<>>)
         \o RowErrors(Tail(rows))

\* C1: when the statement prepares and binds, the driver steps through all N rows
\* without a fault and every row parses, execute returns Ok of exactly N records,
\* the i-th being the parse of the i-th row in fetch order.
ExecuteReturnsEveryRow ==
    IsSome(exec_result) =>
        LET r == Unwrap(exec_result)
        IN  (Delivered(r.self) /\ ~db.fault /\ BadRows = {}) =>
                /\ IsOk(r.ret)
                /\ Len(r.ret.val) = Len(db.rows)
                /\ \A i \in 1..Len(db.rows) :
                       r.ret.val[i] = parse_row(StatementRows[i]).val
                /\ r.fetched = Len(db.rows)

ExecuteReturnedThreeRows ==
    /\ IsSome(exec_result)
    /\ Delivered(Unwrap(exec_result).self)
    /\ ~db.fault
    /\ Len(db.names) = 3
    /\ db.rows = <<apple, orange, apple>>
    /\ IsOk(Unwrap(exec_result).ret)
    /\ Len(Unwrap(exec_result).ret.val) = 3

\* C2: when at least one row of the result set fails to parse, execute returns
\* one error, that of the first failing row in fetch order, and no records.
ExecuteAllOrNothing ==
    IsSome(exec_result) =>
        LET r == Unwrap(exec_result)
        IN  (Delivered(r.self) /\ BadRows # {}) =>
                /\ r.ret = Err(RusqliteError(parse_row(StatementRows[FirstBad]).err))
                /\ DOMAIN r.ret = {"tag", "err"}

ExecuteFailedOnSecondRow ==
    /\ IsSome(exec_result)
    /\ Delivered(Unwrap(exec_result).self)
    /\ Len(db.names) = 3
    /\ db.rows = <<orange, null_name, null_id>>
    /\ Unwrap(exec_result).ret = Err(RusqliteError(DriverError("InvalidColumnType", 1)))

\* C3: when the statement prepares, execute_collect_errors returns Ok((values,
\* errors)): values are the parses of the rows that parsed, errors one error for
\* each row that failed to parse, both in fetch order, and their lengths add up
\* to the number of rows fetched.
CollectPartitionsRows ==
    IsSome(collect_result) =>
        LET r == Unwrap(collect_result)
        IN  TableExists(r.self) =>
                /\ IsOk(r.ret)
                /\ r.ret.val[1] = OkValues(StatementRows)
                /\ r.ret.val[2] = RowErrors(StatementRows)
                /\ Len(r.ret.val[1]) + Len(r.ret.val[2]) = r.fetched

\* C4: a statement-level driver error (prepare, parameter binding, a fault while
\* stepping) makes execute and execute_collect_errors return Err wrapping it, with
\* no row fetched after it, and it is never an element of the per-row errors.
StatementErrorAborts ==
    /\ IsSome(exec_result) =>
           LET r == Unwrap(exec_result)
           IN  /\ ~TableExists(r.self) =>
                      r.ret = Err(RusqliteError(PrepareError)) /\ r.fetched = 0
               /\ (TableExists(r.self) /\ HasPlaceholder(r.self)) =>
                      r.ret = Err(RusqliteError(BindError(r.self))) /\ r.fetched = 0
               /\ (Delivered(r.self) /\ db.fault /\ BadRows = {}) =>
                      r.ret = Err(RusqliteError(StepFault)) /\ r.fetched = Len(db.rows)
    /\ IsSome(collect_result) =>
           LET r == Unwrap(collect_result)
           IN  /\ ~TableExists(r.self) =>
                      r.ret = Err(RusqliteError(PrepareError)) /\ r.fetched = 0
               /\ (TableExists(r.self) /\ HasPlaceholder(r.self)) =>
                      r.ret = Err(RusqliteError(BindError(r.self))) /\ r.fetched = 0
               /\ IsOk(r.ret) =>
                      \A i \in 1..Len(r.ret.val[2]) :
                          r.ret.val[2][i] # RusqliteError(StepFault)
               /\ (Delivered(r.self) /\ db.fault) =>
                      r.ret = Err(RusqliteError(StepFault)) /\ r.fetched = Len(db.rows)

\* the text the builder is to produce
ClaimedSql(cols, t, w) ==
    LET base == <<"S","E","L","E","C","T"," ">> \o join(cols, <<",", " ">>)
                \o <<" ","F","R","O","M"," ">> \o t \o <<" ">>
    IN  IF IsSome(w) THEN base \o <<"W","H","E","R","E"," ">> \o Unwrap(w) ELSE base

\* "SELECT id, name FROM t "
SelectIdNameFromT ==
    <<"S","E","L","E","C","T"," ","i","d",","," ","n","a","m","e"," ",
      "F","R","O","M"," ","t"," ">>

\* C5: build_sql_string returns Ok of "SELECT " + cols joined by ", " + " FROM " +
\* table + " ", followed by "WHERE " + w when a where-clause is set; the clause in
\* effect is that of the most recent call to where; building leaves the query's
\* table_name and where_clause as they were.
BuildSqlStringExact ==
    /\ where_clause = last_where
    /\ IsSome(built) =>
           LET b == Unwrap(built)
           IN  /\ b.ret = Ok(ClaimedSql(b.columns, b.self.table_name, b.last_where))
               /\ b.after = b.self
               /\ (b.columns = <<id, name>> /\ b.self.table_name = test_table) =>
                      /\ b.last_where = None => b.ret.val = SelectIdNameFromT
                      /\ b.last_where = Some(id_eq_1) =>
                             b.ret.val = SelectIdNameFromT
                                         \o <<"W","H","E","R","E"," ","i","d"," ","="," ","1">>

BuiltWithWhereClause ==
    /\ IsSome(built)
    /\ Unwrap(built).columns = <<id, name>>
    /\ Unwrap(built).self.table_name = test_table
    /\ Unwrap(built).last_where = Some(id_eq_1)
    /\ IsOk(Unwrap(built).ret)
    /\ Len(Unwrap(built).ret.val) = Len(SelectIdNameFromT) + 12

\* the statement of query q and its iterator, with check_columns left out
UncheckedRows(q) ==
    LET statement == prepare_statement(q, db, columns)
    IN  IF IsErr(statement) THEN statement
        ELSE IF IsErr(query_map(statement.val)) THEN map_err(query_map(statement.val))
        ELSE Ok([stmt |-> statement.val, it |-> query_map(statement.val).val])

HasWarning(logged, kind) == \E i \in 1..Len(logged) : logged[i].kind = kind

\* C6: the column check is advisory: from_statement, execute and
\* execute_collect_errors return what they would return with the check left out,
\* whatever the statement shape and the declared columns; a mismatch alone
\* produces no error.
CheckIsAdvisory ==
    /\ \A n \in 0..1 :
           from_statement(Statement(db, <<>>, n), columns).ret
               = map_err(query_map(Statement(db, <<>>, n)))
    /\ IsSome(exec_result) =>
           LET r == Unwrap(exec_result)
               u == UncheckedRows(r.self)
           IN  /\ r.ret = IF IsErr(u) THEN u
                          ELSE map_err(collect(u.val.stmt, u.val.it, <<>>).ret)
               /\ (Delivered(r.self) /\ ~db.fault /\ BadRows = {}) => IsOk(r.ret)
    /\ IsSome(collect_result) =>
           LET r == Unwrap(collect_result)
               u == UncheckedRows(r.self)
           IN  /\ r.ret = IF IsErr(u) THEN u
                          ELSE LET c == filter_map_collect(u.val.stmt, u.val.it, <<>>, <<>>)
                               IN  Ok(<<c.values, c.parsing_errors>>)
               /\ Delivered(r.self) => IsOk(r.ret)

ExecutedDespiteMismatch ==
    /\ IsSome(exec_result)
    /\ IsSome(collect_result)
    /\ HasWarning(Unwrap(exec_result).warnings, "Column count mismatch")
    /\ HasWarning(Unwrap(collect_result).warnings, "Column count mismatch")
    /\ IsOk(Unwrap(exec_result).ret)
    /\ Len(Unwrap(exec_result).ret.val) = 2
    /\ IsOk(Unwrap(collect_result).ret)
    /\ Len(Unwrap(collect_result).ret.val[1]) = 2

\* the messages for the pairs whose names differ, ignoring ASCII case
RECURSIVE DifferingPairs(_, _)
DifferingPairs(names, cols) ==
    IF Len(names) = 0 \/ Len(cols) = 0 THEN <<>>
    ELSE (IF ~eq_ignore_ascii_case(names[1], cols[1])
          THEN <<MismatchMessage(names[1], cols[1])>>
          ELSE <<>>) \o DifferingPairs(Tail(names), Tail(cols))

WarningsOfKind(logged, kind) == SelectSeq(logged, LAMBDA x : x.kind = kind)

\* C7: check_columns collects one "actual != expected" message for every compared
\* pair whose names differ ignoring ASCII case, and logs one name diagnostic
\* joining them with ", " exactly when some pair differs; none on a full match.
NameDiagnosticListsDifferingPairs ==
    IsSome(warnings) =>
        WarningsOfKind(Unwrap(warnings), "Column name mismatch")
            = IF Len(DifferingPairs(db.names, columns)) > 0
              THEN <<Warning("Column name mismatch",
                             <<join(DifferingPairs(db.names, columns), <<",", " ">>)>>)>>
              ELSE <<>>

\* the element the k-th pull of the iterator is to yield
ExpectedElement(k) ==
    IF k <= Len(db.rows) THEN Some(parse_row(StatementRows[k]))
    ELSE IF k = Len(db.rows) + 1 /\ db.fault THEN Some(Err(StepFault))
    ELSE None

Count(seq, x) == Cardinality({i \in 1..Len(seq) : seq[i] = x})

\* C8: the sequence from_statement returns is lazy, single-pass and finite: the
\* check runs once, before any row is fetched; the k-th pull fetches the k-th row
\* and no later one; a parse error does not end the sequence; after the last row
\* every pull yields nothing.
IteratorIsLazy ==
    /\ ~IsSome(from_result) => trace = <<>> /\ pulled = <<>>
    /\ IsSome(from_result) =>
           /\ trace[1] = "check_columns"
           /\ Count(trace, "check_columns") = 1
           /\ \A i \in 3..Len(trace) : trace[i] = "step"
    /\ \A k \in 1..Len(pulled) : pulled[k] = ExpectedElement(k)
    /\ IsSome(iter) =>
           /\ Unwrap(iter).it.pos = Min(Len(pulled), Len(db.rows))
           /\ Count(trace, "step") = Min(Len(pulled), Len(db.rows) + 1)

PulledPastParseError ==
    /\ Len(db.names) = 3
    /\ db.rows = <<orange, null_name, apple>>
    /\ ~db.fault
    /\ Len(pulled) = 5
    /\ IsErr(Unwrap(pulled[2]))
    /\ IsOk(Unwrap(pulled[3]))
    /\ pulled[4] = None
    /\ pulled[5] = None

\* C9: check_columns logs the count diagnostic if and only if the statement's
\* column count differs from the number of expected columns, whatever the names
\* are, and it returns in every case.
CountDiagnosticIffCountsDiffer ==
    IsSome(warnings) =>
        /\ WarningsOfKind(Unwrap(warnings), "Column count mismatch")
               = IF Len(db.names) # Len(columns)
                 THEN <<Warning("Column count mismatch", <<Len(columns), Len(db.names)>>)>>
                 ELSE <<>>
        /\ Len(Unwrap(warnings)) <= 2

\* the four combinations of the two diagnostics
CountDiagnosticOnly ==
    /\ IsSome(warnings)
    /\ Len(db.names) >= 1
    /\ Len(columns) >= 1
    /\ HasWarning(Unwrap(warnings), "Column count mismatch")
    /\ ~HasWarning(Unwrap(warnings), "Column name mismatch")

NameDiagnosticOnly ==
    /\ IsSome(warnings)
    /\ ~HasWarning(Unwrap(warnings), "Column count mismatch")
    /\ HasWarning(Unwrap(warnings), "Column name mismatch")

BothDiagnostics ==
    /\ IsSome(warnings)
    /\ HasWarning(Unwrap(warnings), "Column count mismatch")
    /\ HasWarning(Unwrap(warnings), "Column name mismatch")

NoDiagnostic ==
    /\ IsSome(warnings)
    /\ Len(db.names) >= 1
    /\ Unwrap(warnings) = <<>>

\* an Err that wraps a statement-level driver error
StatementLevelErr(ret) ==
    /\ IsErr(ret)
    /\ ret.err.source.kind \in {"SqliteFailure", "InvalidParameterCount"}

\* C10: on the same query and result set, if execute_collect_errors returns
\* Ok((values, errors)) then execute returns Ok(values) when errors is empty and
\* Err(errors[1]) otherwise; execute returns a statement-level Err exactly when
\* execute_collect_errors does.
ExecuteAgreesWithCollect ==
    (/\ IsSome(exec_result)
     /\ IsSome(collect_result)
     /\ Unwrap(exec_result).self = Unwrap(collect_result).self) =>
        LET e == Unwrap(exec_result).ret
            c == Unwrap(collect_result).ret
        IN  /\ (IsOk(c) /\ c.val[2] = <<>>) => e = Ok(c.val[1])
            /\ (IsOk(c) /\ c.val[2] # <<>>) => e = Err(c.val[2][1])
            /\ StatementLevelErr(e) <=> StatementLevelErr(c)

====
